---- MODULE Spec2Model ----
(***************************************************************************)
(* Model of db-migrate.py: the one-shot migration of a globed2 central     *)
(* server database into the globed3 databases.                             *)
(*                                                                         *)
(* Conventions.  A Python Optional is a sequence of length 0 (None) or 1.  *)
(* Text that the program splits, joins or parses is a sequence of          *)
(* one-character strings; text that is only copied or compared is a        *)
(* string.  A table with a primary key that the program fills from a dict  *)
(* is a set of rows; the other tables are sequences in insertion order.    *)
(***************************************************************************)
EXTENDS Integers, Sequences, FiniteSets, TLC

VARIABLES pc, fatal, old_db, roles_db, token, gdproxy, clock,
          new_users, new_puns, new_logs, features,
          migrated, pun_warnings, link_warnings, http_calls,
          new_db, feat_db, new_stmts, feat_stmts, new_db0, feat_db0

vars == <<pc, fatal, old_db, roles_db, token, gdproxy, clock,
          new_users, new_puns, new_logs, features,
          migrated, pun_warnings, link_warnings, http_calls,
          new_db, feat_db, new_stmts, feat_stmts, new_db0, feat_db0>>

---------------------------------------------------------------------------
(* Python values *)

None == <<>>
Some(v) == <<v>>
IsNone(o) == Len(o) = 0
Get(o) == o[1]

\* Python truthiness of an Optional[int]: None and 0 are falsy.
TruthyInt(o) == ~IsNone(o) /\ Get(o) # 0
\* Python truthiness of an Optional[str] held as a string: None and "" are falsy.
TruthyStr(o) == ~IsNone(o) /\ Get(o) # ""
\* Python truthiness of an Optional text held as a character sequence.
TruthyText(o) == ~IsNone(o) /\ Len(Get(o)) > 0

\* `x or 0` for an Optional[int]
OrZero(o) == IF TruthyInt(o) THEN Get(o) ELSE 0

Range(s) == {s[i] : i \in 1..Len(s)}

\* Index of the first occurrence of character c in s, 0 if there is none.
RECURSIVE FindFrom(_, _, _)
FindFrom(s, c, i) ==
    IF i > Len(s) THEN 0
    ELSE IF s[i] = c THEN i
    ELSE FindFrom(s, c, i + 1)

\* str.split(c): the pieces between the occurrences of c (always at least one).
RECURSIVE Split(_, _)
Split(s, c) ==
    LET i == FindFrom(s, c, 1) IN
    IF i = 0 THEN <<s>>
    ELSE <<SubSeq(s, 1, i - 1)>> \o Split(SubSeq(s, i + 1, Len(s)), c)

\* c.join(list)
RECURSIVE Join(_, _)
Join(list, c) ==
    IF Len(list) = 0 THEN <<>>
    ELSE IF Len(list) = 1 THEN list[1]
    ELSE list[1] \o <<c>> \o Join(Tail(list), c)

Digits == <<"0", "1", "2", "3", "4", "5", "6", "7", "8", "9">>
IsDigit(ch) == \E d \in 1..10 : Digits[d] = ch
DigitVal(ch) == (CHOOSE d \in 1..10 : Digits[d] = ch) - 1

RECURSIVE DecVal(_)
DecVal(s) ==
    IF Len(s) = 0 THEN 0
    ELSE 10 * DecVal(SubSeq(s, 1, Len(s) - 1)) + DigitVal(s[Len(s)])

\* int(s) for text over letters and digits: None stands for ValueError.
ParseInt(s) ==
    IF Len(s) > 0 /\ \A i \in 1..Len(s) : IsDigit(s[i])
    THEN Some(DecVal(s))
    ELSE None

---------------------------------------------------------------------------
(* migrate_users *)

\* roles_str.split(",") if roles_str else []
ParseRoles(roles_str) ==
    IF TruthyText(roles_str) THEN Split(Get(roles_str), ",") ELSE <<>>

OldUser(row) ==
    [id |-> row.account_id,
     username |-> row.user_name,
     name_color |-> row.name_color,
     whitelisted |-> (row.is_whitelisted # 0),
     roles |-> ParseRoles(row.user_roles),
     admin_password_hash |-> row.admin_password_hash]

NewUser(user) ==
    [id |-> user.id,
     cube |-> 0, color1 |-> 0, color2 |-> 0, glow_color |-> 0,
     username |-> user.username,
     name_color |-> user.name_color,
     whitelisted |-> user.whitelisted,
     admin_password_hash |-> user.admin_password_hash,
     roles |-> user.roles,
     active_mute |-> 0, active_ban |-> 0, active_room_ban |-> 0,
     discord_id |-> None]

\* The dict account id -> NewUser built from the rows of the users table.
migrate_users(rows) ==
    [uid \in {r.account_id : r \in rows} |->
        NewUser(OldUser(CHOOSE r \in rows : r.account_id = uid))]

---------------------------------------------------------------------------
(* migrate_punishments *)

\* type = type2 or ptype
EffectiveType(row) == IF TruthyStr(row.type2) THEN Get(row.type2) ELSE row.type

NewPunishment(row) ==
    [id |-> row.punishment_id,
     account_id |-> row.account_id,
     type |-> EffectiveType(row),
     reason |-> row.reason,
     expires_at |-> row.expires_at,
     issued_by |-> row.issued_by,
     issued_at |-> row.issued_at]

ConvertPunishments(rows) == [i \in 1..Len(rows) |-> NewPunishment(rows[i])]

\* IsExpired with the comparison turned round.
IsExpiredFlipped(p, now) == p.expires_at # 0 /\ p.expires_at > now

\* p.expires_at != 0 and p.expires_at < now
IsExpired(p, now) == p.expires_at # 0 /\ p.expires_at < now

\* KnownTypes with the final else branch accepting whatever is left.
KnownTypesOpen == {"mute", "ban", "roomban", "kick", "warn"}

KnownTypes == {"mute", "ban", "roomban"}

\* SetActive keeping the first id assigned instead of the last.
SetActiveFirstWins(user, p) ==
    IF p.type = "mute" /\ user.active_mute = 0 THEN [user EXCEPT !.active_mute = p.id]
    ELSE IF p.type = "ban" /\ user.active_ban = 0 THEN [user EXCEPT !.active_ban = p.id]
    ELSE IF p.type = "roomban" /\ user.active_room_ban = 0
         THEN [user EXCEPT !.active_room_ban = p.id]
    ELSE user

\* The branch of the loop body that assigns the active id of one user.
SetActive(user, p) ==
    IF p.type = "mute" THEN [user EXCEPT !.active_mute = p.id]
    ELSE IF p.type = "ban" THEN [user EXCEPT !.active_ban = p.id]
    ELSE IF p.type = "roomban" THEN [user EXCEPT !.active_room_ban = p.id]
    ELSE user

\* The "set active puns" loop from punishment i on.  error is None, or the
\* type the ValueError names; the loop stops at the raise, the users
\* mutated so far stay mutated.
RECURSIVE SetActivePuns(_, _, _, _, _, _)
SetActivePuns(users, puns, i, now, count, warns) ==
    IF i > Len(puns)
    THEN [users |-> users, migrated |-> count, warnings |-> warns, error |-> None]
    ELSE LET p == puns[i] IN
         IF IsExpired(p, now)
         THEN SetActivePuns(users, puns, i + 1, now, count, warns)
         ELSE IF p.account_id \in DOMAIN users
         THEN IF p.type \in KnownTypes
              THEN SetActivePuns(
                       [users EXCEPT ![p.account_id] = SetActive(@, p)],
                       puns, i + 1, now, count + 1, warns)
              ELSE [users |-> users, migrated |-> count + 1,
                    warnings |-> warns, error |-> Some(p.type)]
         ELSE SetActivePuns(users, puns, i + 1, now, count, Append(warns, p.id))

\* AuditLog with actor and target exchanged.
AuditLogSwapped(p) ==
    [account_id |-> p.account_id,
     type |-> p.type,
     timestamp |-> OrZero(p.issued_at),
     target_account_id |-> OrZero(p.issued_by),
     message |-> p.reason,
     expires_at |-> p.expires_at]

AuditLog(p) ==
    [account_id |-> OrZero(p.issued_by),
     type |-> p.type,
     timestamp |-> OrZero(p.issued_at),
     target_account_id |-> p.account_id,
     message |-> p.reason,
     expires_at |-> p.expires_at]

CreateAuditLogs(puns) == [i \in 1..Len(puns) |-> AuditLog(puns[i])]

\* The whole function: on a raise nothing is returned (puns and logs empty).
migrate_punishments(users, rows, now) ==
    LET puns == ConvertPunishments(rows)
        r == SetActivePuns(users, puns, 1, now, 0, <<>>)
    IN  IF IsNone(r.error)
        THEN [r EXCEPT !.error = None] @@ [puns |-> puns, logs |-> CreateAuditLogs(puns)]
        ELSE r @@ [puns |-> <<>>, logs |-> <<>>]

---------------------------------------------------------------------------
(* migrate_discord_links *)

\* LinkUser storing the account id of the link.
LinkUserOwnId(user, link) == [user EXCEPT !.discord_id = Some(link.gd_id)]

\* users[link.gd_id].discord_id = link.discord_id
LinkUser(user, link) == [user EXCEPT !.discord_id = Some(link.discord_id)]

\* The loop over the links from link i on.  The membership test reads the
\* module-level new_users (globals), the assignment indexes the parameter
\* users; error is TRUE for the KeyError of an id the parameter lacks.
RECURSIVE MergeLinks(_, _, _, _, _)
MergeLinks(users, globals, links, i, warns) ==
    IF i > Len(links)
    THEN [users |-> users, warnings |-> warns, error |-> FALSE]
    ELSE LET link == links[i] IN
         IF link.gd_id \in DOMAIN globals
         THEN IF link.gd_id \in DOMAIN users
              THEN MergeLinks(
                       [users EXCEPT ![link.gd_id] = LinkUser(@, link)],
                       globals, links, i + 1, warns)
              ELSE [users |-> users, warnings |-> warns, error |-> TRUE]
         ELSE MergeLinks(users, globals, links, i + 1, Append(warns, link.gd_id))

\* roles is None when roles_path is None (no roles_cur).
migrate_discord_links(users, globals, roles) ==
    IF IsNone(roles)
    THEN [users |-> users, warnings |-> <<>>, error |-> FALSE]
    ELSE MergeLinks(users, globals, Get(roles).linked_users, 1, <<>>)

---------------------------------------------------------------------------
(* fetch_level_data *)

Raise(exc) == [status |-> exc, value |-> None, called |-> TRUE]
Return(name, author, author_name, called) ==
    [status |-> "ok",
     value |-> Some([name |-> name, author |-> author, author_name |-> author_name]),
     called |-> called]

\* The dict built from alternating key/value tokens: the value of the last
\* complete pair whose key is k, None if there is none (a KeyError on lookup).
PairCount(tokens) == Len(tokens) \div 2
HasKey(tokens, k) == \E j \in 1..PairCount(tokens) : tokens[2 * j - 1] = k
Lookup(tokens, k) ==
    IF HasKey(tokens, k)
    THEN LET j == CHOOSE x \in 1..PairCount(tokens) :
                     /\ tokens[2 * x - 1] = k
                     /\ \A y \in (x + 1)..PairCount(tokens) : tokens[2 * y - 1] # k
         IN  Some(tokens[2 * j])
    ELSE None

\* DecodeLevel comparing the two ids as text.
DecodeLevelTextIds(text) ==
    LET outer_parts == Split(text, "#") IN
    IF Len(outer_parts) < 2 THEN Raise("ValueError")
    ELSE
    LET tokens == Split(outer_parts[1], ":")
        six == Lookup(tokens, <<"6">>)
        two == Lookup(tokens, <<"2">>)
        extra_parts == Split(outer_parts[2], ":")
    IN  IF IsNone(six) THEN Raise("KeyError")
        ELSE IF Len(extra_parts) < 3 THEN Raise("AssertionError")
        ELSE IF extra_parts[1] # Get(six) THEN Raise("AssertionError")
        ELSE IF IsNone(two) THEN Raise("KeyError")
        ELSE IF IsNone(ParseInt(extra_parts[3])) THEN Raise("ValueError")
        ELSE Return(Get(two), Get(ParseInt(extra_parts[3])), extra_parts[2], TRUE)

\* The decoding of a successful response body.
DecodeLevel(text) ==
    LET outer_parts == Split(text, "#") IN
    IF Len(outer_parts) < 2 THEN Raise("ValueError")
    ELSE
    LET data == outer_parts[1]
        extra == outer_parts[2]
        tokens == Split(data, ":")
        six == Lookup(tokens, <<"6">>)
        two == Lookup(tokens, <<"2">>)
        extra_parts == Split(extra, ":")
    IN  IF IsNone(six) THEN Raise("KeyError")
        ELSE IF IsNone(ParseInt(Get(six))) THEN Raise("ValueError")
        ELSE IF Len(extra_parts) < 3 THEN Raise("AssertionError")
        ELSE IF IsNone(ParseInt(extra_parts[1])) THEN Raise("ValueError")
        ELSE IF Get(ParseInt(extra_parts[1])) # Get(ParseInt(Get(six)))
             THEN Raise("AssertionError")
        ELSE IF IsNone(two) THEN Raise("KeyError")
        ELSE IF IsNone(ParseInt(extra_parts[3])) THEN Raise("ValueError")
        ELSE Return(Get(two), Get(ParseInt(extra_parts[3])), extra_parts[2], TRUE)

\* fetch_level_data without the early return for a missing token.
fetch_level_data_NoTokenCheck(level_id, tok, resp) ==
    IF ~resp.ok THEN Raise("HTTPError") ELSE DecodeLevel(resp.text)

\* tok is the GDPROXY_TOKEN of the environment ("" when unset); resp is the
\* reply the proxy gives to the POST for this level.
fetch_level_data(level_id, tok, resp) ==
    IF tok = "" THEN Return(<<>>, 0, <<>>, FALSE)
    ELSE IF ~resp.ok THEN Raise("HTTPError")
    ELSE DecodeLevel(resp.text)

---------------------------------------------------------------------------
(* migrate_features *)

NewFeaturedLevel(level, data) ==
    [level_id |-> level.level_id,
     name |-> data.name,
     author |-> data.author,
     author_name |-> data.author_name,
     featured_at |-> level.picked_at,
     rate_tier |-> level.rate_tier,
     feature_duration |-> None]

\* The fetch loop from row i on; it stops at the first fetch that raises.
RECURSIVE FetchLoop(_, _, _, _, _, _)
FetchLoop(rows, i, tok, proxy, out, calls) ==
    IF i > Len(rows)
    THEN [features |-> out, calls |-> calls, error |-> None]
    ELSE LET r == fetch_level_data(rows[i].level_id, tok, proxy[i])
             n == IF r.called THEN calls + 1 ELSE calls
         IN  IF r.status = "ok"
             THEN FetchLoop(rows, i + 1, tok, proxy,
                            Append(out, NewFeaturedLevel(rows[i], Get(r.value))), n)
             ELSE [features |-> out, calls |-> n, error |-> Some(r.status)]

migrate_features(rows, tok, proxy) == FetchLoop(rows, 1, tok, proxy, <<>>, 0)

---------------------------------------------------------------------------
(* push_new_users, push_features *)

\* DeleteList with the DELETE left out.
KeepList(table) == table

\* DELETE FROM <table>, for a table held as a set and as a sequence.
DeleteRows(table) == {}
DeleteList(table) == <<>>

BoolToInt(b) == IF b THEN 1 ELSE 0

\* The row of one INSERT INTO user: the name_color column is the literal NULL.
UserRow(user) ==
    [account_id |-> user.id,
     cube |-> user.cube, color1 |-> user.color1, color2 |-> user.color2,
     glow_color |-> user.glow_color,
     username |-> user.username,
     name_color |-> None,
     is_whitelisted |-> BoolToInt(user.whitelisted),
     admin_password_hash |-> user.admin_password_hash,
     roles |-> Join(user.roles, ","),
     active_mute |-> user.active_mute,
     active_ban |-> user.active_ban,
     active_room_ban |-> user.active_room_ban,
     discord_id |-> user.discord_id]

PunishmentRow(pun) ==
    [id |-> pun.id,
     account_id |-> pun.account_id,
     type |-> pun.type,
     reason |-> pun.reason,
     expires_at |-> pun.expires_at,
     issued_by |-> OrZero(pun.issued_by),
     issued_at |-> pun.issued_at]

AuditRow(log) ==
    [account_id |-> log.account_id,
     type |-> log.type,
     timestamp |-> log.timestamp,
     target_account_id |-> log.target_account_id,
     message |-> log.message,
     expires_at |-> log.expires_at]

FeatureRow(feat) ==
    [level_id |-> feat.level_id,
     name |-> feat.name,
     author |-> feat.author,
     author_name |-> feat.author_name,
     featured_at |-> feat.featured_at,
     rate_tier |-> feat.rate_tier,
     feature_duration |-> feat.feature_duration]

\* The committed content of db.sqlite after the function.
push_new_users(db, users, puns, logs) ==
    [user |-> DeleteRows(db.user) \cup {UserRow(users[k]) : k \in DOMAIN users},
     punishment |-> DeleteList(db.punishment)
                        \o [i \in 1..Len(puns) |-> PunishmentRow(puns[i])],
     audit_log |-> DeleteList(db.audit_log)
                        \o [i \in 1..Len(logs) |-> AuditRow(logs[i])]]

\* The committed content of features.sqlite after the function (feat_cur is
\* a cursor and always truthy, the early return is never taken).
push_features(table, feats) ==
    DeleteList(table) \o [i \in 1..Len(feats) |-> FeatureRow(feats[i])]

\* Statements issued by each: the DELETEs, one INSERT per record, the commit.
NewStatements(users, puns, logs) ==
    3 + Cardinality(DOMAIN users) + Len(puns) + Len(logs) + 1
FeatStatements(feats) == 1 + Len(feats) + 1

---------------------------------------------------------------------------
(* The script: lines 350-356, one action per call *)

MigrateUsers ==
    /\ pc = "migrate_users"
    /\ new_users' = migrate_users(old_db.users)
    /\ pc' = "migrate_punishments"
    /\ UNCHANGED <<fatal, old_db, roles_db, token, gdproxy, clock, new_puns,
                   new_logs, features, migrated, pun_warnings, link_warnings,
                   http_calls, new_db, feat_db, new_stmts, feat_stmts,
                   new_db0, feat_db0>>

MigratePunishments ==
    /\ pc = "migrate_punishments"
    /\ LET r == migrate_punishments(new_users, old_db.punishments, clock) IN
        /\ new_users' = r.users
        /\ new_puns' = r.puns
        /\ new_logs' = r.logs
        /\ migrated' = r.migrated
        /\ pun_warnings' = r.warnings
        /\ fatal' = IF IsNone(r.error) THEN None
                    ELSE Some([exc |-> "ValueError", in |-> "migrate_punishments"])
        /\ pc' = IF IsNone(r.error) THEN "migrate_discord_links" ELSE "failed"
    /\ UNCHANGED <<old_db, roles_db, token, gdproxy, clock, features,
                   link_warnings, http_calls, new_db, feat_db, new_stmts,
                   feat_stmts, new_db0, feat_db0>>

MigrateDiscordLinks ==
    /\ pc = "migrate_discord_links"
    /\ LET r == migrate_discord_links(new_users, new_users, roles_db) IN
        /\ new_users' = r.users
        /\ link_warnings' = r.warnings
        /\ fatal' = IF r.error
                    THEN Some([exc |-> "KeyError", in |-> "migrate_discord_links"])
                    ELSE None
        /\ pc' = IF r.error THEN "failed" ELSE "push_new_users"
    /\ UNCHANGED <<old_db, roles_db, token, gdproxy, clock, new_puns, new_logs,
                   features, migrated, pun_warnings, http_calls, new_db,
                   feat_db, new_stmts, feat_stmts, new_db0, feat_db0>>

PushNewUsers ==
    /\ pc = "push_new_users"
    /\ new_db' = push_new_users(new_db, new_users, new_puns, new_logs)
    /\ new_stmts' = new_stmts + NewStatements(new_users, new_puns, new_logs)
    /\ pc' = "migrate_features"
    /\ UNCHANGED <<fatal, old_db, roles_db, token, gdproxy, clock, new_users,
                   new_puns, new_logs, features, migrated, pun_warnings,
                   link_warnings, http_calls, feat_db, feat_stmts,
                   new_db0, feat_db0>>

\* MigrateFeatures issuing the DELETE of push_features before the fetches.
MigrateFeaturesDeleteFirst ==
    /\ pc = "migrate_features"
    /\ LET r == migrate_features(old_db.featured_levels, token, gdproxy) IN
        /\ features' = r.features
        /\ http_calls' = r.calls
        /\ fatal' = IF IsNone(r.error) THEN None
                    ELSE Some([exc |-> Get(r.error), in |-> "migrate_features"])
        /\ pc' = IF IsNone(r.error) THEN "push_features" ELSE "failed"
    /\ feat_stmts' = feat_stmts + 1
    /\ UNCHANGED <<old_db, roles_db, token, gdproxy, clock, new_users, new_puns,
                   new_logs, migrated, pun_warnings, link_warnings, new_db,
                   feat_db, new_stmts, new_db0, feat_db0>>

MigrateFeatures ==
    /\ pc = "migrate_features"
    /\ LET r == migrate_features(old_db.featured_levels, token, gdproxy) IN
        /\ features' = r.features
        /\ http_calls' = r.calls
        /\ fatal' = IF IsNone(r.error) THEN None
                    ELSE Some([exc |-> Get(r.error), in |-> "migrate_features"])
        /\ pc' = IF IsNone(r.error) THEN "push_features" ELSE "failed"
    /\ UNCHANGED <<old_db, roles_db, token, gdproxy, clock, new_users, new_puns,
                   new_logs, migrated, pun_warnings, link_warnings, new_db,
                   feat_db, new_stmts, feat_stmts, new_db0, feat_db0>>

PushFeatures ==
    /\ pc = "push_features"
    /\ feat_db' = push_features(feat_db, features)
    /\ feat_stmts' = feat_stmts + FeatStatements(features)
    /\ pc' = "done"
    /\ UNCHANGED <<fatal, old_db, roles_db, token, gdproxy, clock, new_users,
                   new_puns, new_logs, features, migrated, pun_warnings,
                   link_warnings, http_calls, new_db, new_stmts,
                   new_db0, feat_db0>>

Next ==
    \/ MigrateUsers
    \/ MigratePunishments
    \/ MigrateDiscordLinks
    \/ PushNewUsers
    \/ MigrateFeatures
    \/ PushFeatures

---------------------------------------------------------------------------
(* Inputs: the content of the legacy store, the link store, the proxy *)

Clocks == {1000}

\* Legacy user rows.  user_roles is the comma-delimited role string.
PlainUser(uid) ==
    [account_id |-> uid, user_name |-> "alice", name_color |-> None,
     is_whitelisted |-> 0, user_roles |-> None, admin_password_hash |-> None]

ColoredUser(uid) ==
    [account_id |-> uid, user_name |-> "bob", name_color |-> Some("#ff0000"),
     is_whitelisted |-> 1,
     user_roles |-> Some(<<"m", "o", "d", ",", "a", "d", "m", "i", "n">>),
     admin_password_hash |-> Some("h4sh")]

SingleRoleUser(uid) ==
    [account_id |-> uid, user_name |-> "carol", name_color |-> Some("#00ff00"),
     is_whitelisted |-> 0, user_roles |-> Some(<<"m", "o", "d">>),
     admin_password_hash |-> None]

UserProfiles(uid) == {PlainUser(uid), ColoredUser(uid), SingleRoleUser(uid)}

\* Every user table over the account ids 1..n, one row per id.
UserTables(n) ==
    {{f[u] : u \in 1..n} :
        f \in {g \in [1..n -> UNION {UserProfiles(u) : u \in 1..n}] :
                  \A u \in 1..n : g[u].account_id = u}}

\* Legacy punishment rows, without id and account: primary type, override,
\* expiry, issuer, issue time, reason.
PunKinds(now) ==
    {[type |-> "mute", type2 |-> None, expires_at |-> 0,
      issued_by |-> Some(7), issued_at |-> Some(500), reason |-> "spam"],
     [type |-> "mute", type2 |-> Some(""), expires_at |-> now,
      issued_by |-> None, issued_at |-> Some(300), reason |-> "caps"],
     [type |-> "ban", type2 |-> None, expires_at |-> now - 1,
      issued_by |-> Some(8), issued_at |-> Some(200), reason |-> "old"],
     [type |-> "kick", type2 |-> Some("ban"), expires_at |-> now + 1,
      issued_by |-> Some(0), issued_at |-> None, reason |-> "cheat"],
     [type |-> "roomban", type2 |-> None, expires_at |-> 0,
      issued_by |-> Some(9), issued_at |-> Some(0), reason |-> "room"],
     [type |-> "mute", type2 |-> Some("roomban"), expires_at |-> now - 1,
      issued_by |-> Some(7), issued_at |-> Some(400), reason |-> "gone"],
     [type |-> "kick", type2 |-> None, expires_at |-> now,
      issued_by |-> Some(7), issued_at |-> Some(600), reason |-> "bad"],
     [type |-> "mute", type2 |-> Some("warn"), expires_at |-> now - 1,
      issued_by |-> None, issued_at |-> None, reason |-> "worse"]}

PunRowOf(pid, aid, kind) ==
    [punishment_id |-> pid, account_id |-> aid,
     type |-> kind.type, type2 |-> kind.type2,
     reason |-> kind.reason, expires_at |-> kind.expires_at,
     issued_by |-> kind.issued_by, issued_at |-> kind.issued_at]

\* The order in which the SELECT without ORDER BY yields n rows with ids 1..n.
IdOrders(n) == {[i \in 1..n |-> i], [i \in 1..n |-> n + 1 - i]}

PunTables(maxlen, aids, kinds) ==
    UNION {
        {[i \in 1..n |-> PunRowOf(ord[i], acc[i], k[i])] :
            ord \in IdOrders(n), acc \in [1..n -> aids], k \in [1..n -> kinds]}
        : n \in 0..maxlen}

\* The punishment tables of the runs that are not about reconciliation: none,
\* one of each type for account 1 and one for account 99, which is no user,
\* one of unknown type.
MuteKind(now) == CHOOSE k \in PunKinds(now) : k.reason = "spam"
BanKind(now) == CHOOSE k \in PunKinds(now) : k.reason = "cheat"
RoomBanKind(now) == CHOOSE k \in PunKinds(now) : k.reason = "room"
KickKind(now) == CHOOSE k \in PunKinds(now) : k.reason = "bad"

FewPunTables(now) ==
    {<<>>,
     <<PunRowOf(1, 1, MuteKind(now)), PunRowOf(2, 1, BanKind(now)),
       PunRowOf(3, 99, MuteKind(now)), PunRowOf(4, 1, RoomBanKind(now))>>,
     <<PunRowOf(1, 1, MuteKind(now)), PunRowOf(2, 1, KickKind(now))>>}

\* linked_users rows: the i-th link carries discord id 900 + i.
LinkTables(maxlen, gdids) ==
    UNION {
        {[i \in 1..n |-> [discord_id |-> 900 + i, gd_id |-> gd[i]]] :
            gd \in [1..n -> gdids]}
        : n \in 0..maxlen}

RolesDbs(maxlen, gdids) ==
    {None} \cup
    {Some([roles |-> <<[id |-> "mod", discord_id |-> 800]>>, linked_users |-> l]) :
        l \in LinkTables(maxlen, gdids)}

\* featured_levels rows: the i-th row features level 100 + i.
FeaturedTables(maxlen) ==
    UNION {
        {[i \in 1..n |->
            [id |-> i, level_id |-> 100 + i, picked_at |-> 5000 + i,
             picked_by |-> 7, is_active |-> act[i], rate_tier |-> 2 + i]] :
            act \in [1..n -> {0, 1}]}
        : n \in 0..maxlen}

\* Response bodies of the proxy.
MyLevel == <<"M", "y", "L", "e", "v", "e", "l">>
SomeUser == <<"s", "o", "m", "e", "u", "s", "e", "r">>

DataSegments ==
    {<<"2", ":">> \o MyLevel \o <<":", "6", ":", "4", "2">>,
     <<"6", ":", "0", "4", "2", ":", "2", ":">> \o MyLevel,
     <<"2", ":">> \o MyLevel,
     <<"6", ":", "4", "2">>,
     <<"2", ":", "O", "l", "d", ":", "6", ":", "4", "1", ":", "2", ":">>
         \o MyLevel \o <<":", "6", ":", "4", "2", ":", "9">>,
     <<"2", ":">> \o MyLevel \o <<":", "6", ":", "4", "x">>}

ExtraSegments ==
    {<<"4", "2", ":">> \o SomeUser \o <<":", "7", "7", "7">>,
     <<"4", "2", ":">> \o SomeUser \o <<":", "7", "7", "7", ":", "x", ":", "1">>,
     <<"4", "3", ":">> \o SomeUser \o <<":", "7", "7", "7">>,
     <<"4", "2", ":">> \o SomeUser,
     <<"4", "2", ":">> \o SomeUser \o <<":", "a", "b", "c">>,
     <<"x", ":">> \o SomeUser \o <<":", "7", "7", "7">>}

Trailers == {<<>>, <<"#", "1", ":", "2", "#", "h", "a", "s", "h">>}

Bodies ==
    {d \o <<"#">> \o e \o t : d \in DataSegments, e \in ExtraSegments, t \in Trailers}
    \cup {<<"2", ":">> \o MyLevel \o <<":", "6", ":", "4", "2">>}

\* The body of section 8 of the specification: 2:MyLevel:6:42#42:someuser:777
ExampleBody ==
    <<"2", ":">> \o MyLevel \o <<":", "6", ":", "4", "2", "#", "4", "2", ":">>
        \o SomeUser \o <<":", "7", "7", "7">>

AllResponses ==
    {[ok |-> TRUE, text |-> b] : b \in Bodies} \cup {[ok |-> FALSE, text |-> <<>>]}

FewResponses ==
    {[ok |-> TRUE, text |-> ExampleBody],
     [ok |-> FALSE, text |-> <<>>],
     [ok |-> TRUE,
      text |-> <<"2", ":">> \o MyLevel \o <<":", "6", ":", "4", "1", "#", "4", "2", ":">>
                  \o SomeUser \o <<":", "7", "7", "7">>]}

\* Content of the target stores before the run.
EmptyNewDb == [user |-> {}, punishment |-> <<>>, audit_log |-> <<>>]

StaleNewDb ==
    [user |-> {[account_id |-> 77, cube |-> 1, color1 |-> 2, color2 |-> 3,
                glow_color |-> 4, username |-> "stale", name_color |-> None,
                is_whitelisted |-> 0, admin_password_hash |-> None,
                roles |-> <<>>, active_mute |-> 0, active_ban |-> 0,
                active_room_ban |-> 0, discord_id |-> None]},
     punishment |-> <<[id |-> 1, account_id |-> 77, type |-> "ban",
                       reason |-> "stale", expires_at |-> 0, issued_by |-> 0,
                       issued_at |-> Some(1)]>>,
     audit_log |-> <<[account_id |-> 0, type |-> "ban", timestamp |-> 1,
                      target_account_id |-> 77, message |-> "stale",
                      expires_at |-> 0]>>]

StaleFeatDb ==
    <<[level_id |-> 55, name |-> <<"o", "l", "d">>, author |-> 1,
       author_name |-> <<"x">>, featured_at |-> 1, rate_tier |-> 1,
       feature_duration |-> None]>>

InitMemory ==
    /\ pc = "migrate_users"
    /\ fatal = None
    /\ new_users = <<>>
    /\ new_puns = <<>>
    /\ new_logs = <<>>
    /\ features = <<>>
    /\ migrated = 0
    /\ pun_warnings = <<>>
    /\ link_warnings = <<>>
    /\ http_calls = 0
    /\ new_stmts = 0
    /\ feat_stmts = 0
    /\ new_db0 = new_db
    /\ feat_db0 = feat_db

---------------------------------------------------------------------------
(* Specifications.  All run the same script; they differ in which input   *)
(* is drawn from a wide set.                                              *)

\* Whole run: users 1..RunUsers, few punishments, at most RunLinks links and
\* RunFeats featured levels, with and without a token, over empty and stale
\* target stores.
RunUsers == 1
RunLinks == 1
RunFeats == 2

Init ==
    /\ clock \in Clocks
    /\ old_db \in
        [users : {{PlainUser(u) : u \in 1..RunUsers}},
         punishments : FewPunTables(clock),
         featured_levels : FeaturedTables(RunFeats)]
    /\ roles_db \in RolesDbs(RunLinks, 1..(RunUsers + 1))
    /\ token \in {"", "tok"}
    /\ gdproxy \in [1..Len(old_db.featured_levels) -> FewResponses]
    /\ \E prior \in {<<EmptyNewDb, <<>> >>, <<StaleNewDb, StaleFeatDb>>} :
          new_db = prior[1] /\ feat_db = prior[2]
    /\ InitMemory

Spec == Init /\ [][Next]_vars

\* Reconciliation: every table of at most ReconPuns punishments over the
\* users 1..ReconUsers and one account that is no user.
ReconUsers == 2
ReconPuns == 2

InitRecon ==
    /\ clock \in Clocks
    /\ old_db \in
        [users : {{PlainUser(u) : u \in 1..ReconUsers}},
         punishments : PunTables(ReconPuns, 1..(ReconUsers + 1), PunKinds(clock)),
         featured_levels : {<<>>}]
    /\ roles_db = None
    /\ token = ""
    /\ gdproxy = <<>>
    /\ new_db = EmptyNewDb
    /\ feat_db = <<>>
    /\ InitMemory

SpecRecon == InitRecon /\ [][Next]_vars

\* Users and links: every user table over 1..LinkUsers, every table of at
\* most MaxLinks links to those users or to one account that is no user.
LinkUsers == 2
MaxLinks == 2

InitLinks ==
    /\ clock \in Clocks
    /\ old_db \in
        [users : UserTables(LinkUsers),
         punishments : FewPunTables(clock),
         featured_levels : {<<>>}]
    /\ roles_db \in RolesDbs(MaxLinks, 1..(LinkUsers + 1))
    /\ token = ""
    /\ gdproxy = <<>>
    /\ new_db = EmptyNewDb
    /\ feat_db = <<>>
    /\ InitMemory

SpecLinks == InitLinks /\ [][Next]_vars

\* Level metadata: at most FetchFeats featured levels, every response.
FetchFeats == 1

InitFetch ==
    /\ clock \in Clocks
    /\ old_db \in
        [users : {{PlainUser(1)}},
         punishments : {<<>>},
         featured_levels : FeaturedTables(FetchFeats)]
    /\ roles_db = None
    /\ token = "tok"
    /\ gdproxy \in [1..Len(old_db.featured_levels) -> AllResponses]
    /\ new_db = EmptyNewDb
    /\ feat_db = <<>>
    /\ InitMemory

SpecFetch == InitFetch /\ [][Next]_vars

---------------------------------------------------------------------------
(* Vocabulary of the properties, stated on the legacy rows themselves *)

LegacyPuns == old_db.punishments
UserIds == {r.account_id : r \in old_db.users}

\* The override if it is present (not NULL, not empty), else the primary type.
TypeOfRow(row) ==
    IF row.type2 # None /\ row.type2 # Some("") THEN row.type2[1] ELSE row.type

\* Nonzero expiry strictly before the reconciliation timestamp.
RowExpired(row) == row.expires_at # 0 /\ row.expires_at < clock

RowOrphaned(row) == row.account_id \notin UserIds

\* migrate_punishments has run / raised / returned.
Reconciled == pc \notin {"migrate_users", "migrate_punishments"}
ReconAborted == fatal # None /\ fatal[1].in = "migrate_punishments"
ReconReturned == Reconciled /\ ~ReconAborted

ActiveId(user, t) ==
    CASE t = "mute" -> user.active_mute
      [] t = "ban" -> user.active_ban
      [] t = "roomban" -> user.active_room_ban

\* Positions of the non-expired rows of type t for account u.
Candidates(u, t) ==
    {i \in 1..Len(LegacyPuns) :
        /\ LegacyPuns[i].account_id = u
        /\ TypeOfRow(LegacyPuns[i]) = t
        /\ ~RowExpired(LegacyPuns[i])}

SetMax(S) == CHOOSE x \in S : \A y \in S : y <= x

AscendingIds ==
    \A i \in 1..Len(LegacyPuns), j \in 1..Len(LegacyPuns) :
        i < j => LegacyPuns[i].punishment_id < LegacyPuns[j].punishment_id

---------------------------------------------------------------------------
(* C1 *)

\* C1 as stated: whenever some legacy punishment, expired or not, orphaned or
\* not, has an effective type outside {mute, ban, roomban}, migrate_punishments
\* aborts.
C1_AnyUnknownTypeAborts ==
    (Reconciled /\ \E i \in 1..Len(LegacyPuns) :
                       TypeOfRow(LegacyPuns[i]) \notin {"mute", "ban", "roomban"})
        => ReconAborted

\* C1, amended: migrate_punishments aborts with the unknown-type error exactly
\* when some punishment that is not expired and whose account id is in the user
\* mapping has an effective type outside {mute, ban, roomban}.
C1_LiveUnknownTypeAborts ==
    Reconciled =>
        (ReconAborted <=>
            \E i \in 1..Len(LegacyPuns) :
                /\ TypeOfRow(LegacyPuns[i]) \notin {"mute", "ban", "roomban"}
                /\ ~RowExpired(LegacyPuns[i])
                /\ ~RowOrphaned(LegacyPuns[i]))

\* A run aborted by a live punishment of unknown type that follows an expired
\* one of unknown type, which did not abort it.
C1_Witness ==
    /\ ReconAborted
    /\ fatal[1].exc = "ValueError"
    /\ Len(LegacyPuns) = 2
    /\ TypeOfRow(LegacyPuns[1]) = "warn" /\ RowExpired(LegacyPuns[1])
    /\ TypeOfRow(LegacyPuns[2]) = "kick" /\ ~RowExpired(LegacyPuns[2])
    /\ ~RowOrphaned(LegacyPuns[2])

---------------------------------------------------------------------------
(* C2 *)

\* C2: after migrate_punishments returns, each active-mute/ban/room-ban id of
\* each user is 0 or the id of a returned punishment of that user, of that
\* type, whose expiry is 0 or not before the reconciliation timestamp.
C2_ActiveIdsReferenceLivePunishments ==
    ReconReturned =>
        \A u \in DOMAIN new_users : \A t \in {"mute", "ban", "roomban"} :
            \/ ActiveId(new_users[u], t) = 0
            \/ \E i \in 1..Len(new_puns) :
                /\ new_puns[i].id = ActiveId(new_users[u], t)
                /\ new_puns[i].account_id = u
                /\ new_puns[i].account_id = new_users[u].id
                /\ new_puns[i].type = t
                /\ TypeOfRow(LegacyPuns[i]) = t
                /\ (new_puns[i].expires_at = 0 \/ new_puns[i].expires_at >= clock)

\* A user whose active mute expires exactly at the reconciliation timestamp,
\* beside an expired punishment that is active nowhere.
C2_Witness ==
    /\ ReconReturned
    /\ \E u \in DOMAIN new_users : \E i, j \in 1..Len(new_puns) :
        /\ new_users[u].active_mute = new_puns[i].id
        /\ new_puns[i].account_id = u
        /\ new_puns[i].expires_at = clock
        /\ new_puns[j].account_id = u
        /\ new_puns[j].type = "ban"
        /\ new_puns[j].expires_at = clock - 1
        /\ new_users[u].active_ban = 0

---------------------------------------------------------------------------
(* C3 *)

\* C3: after migrate_punishments returns, the active id of type t of user u is
\* the id of the last non-expired row of type t for u in processing order, 0
\* if there is none; with the rows in ascending id order that is the highest
\* such id.
C3_LastProcessedWins ==
    ReconReturned =>
        \A u \in DOMAIN new_users : \A t \in {"mute", "ban", "roomban"} :
            LET c == Candidates(u, t) IN
            /\ c = {} => ActiveId(new_users[u], t) = 0
            /\ c # {} =>
                /\ ActiveId(new_users[u], t) = LegacyPuns[SetMax(c)].punishment_id
                /\ AscendingIds =>
                    ActiveId(new_users[u], t) =
                        SetMax({LegacyPuns[i].punishment_id : i \in c})

\* Two live mutes of one user, the later one issued earlier: it is the active
\* one.
C3_Witness ==
    /\ ReconReturned
    /\ AscendingIds
    /\ \E u \in DOMAIN new_users : \E i, j \in Candidates(u, "mute") :
        /\ i < j
        /\ LegacyPuns[i].issued_at = Some(500)
        /\ LegacyPuns[j].issued_at = Some(300)
        /\ new_users[u].active_mute = LegacyPuns[j].punishment_id

---------------------------------------------------------------------------
(* C4 *)

AuditOfRow(row) ==
    [account_id |-> IF row.issued_by = None THEN 0 ELSE row.issued_by[1],
     type |-> TypeOfRow(row),
     timestamp |-> IF row.issued_at = None THEN 0 ELSE row.issued_at[1],
     target_account_id |-> row.account_id,
     message |-> row.reason,
     expires_at |-> row.expires_at]

PunishmentOfRow(row) ==
    [id |-> row.punishment_id, account_id |-> row.account_id,
     type |-> TypeOfRow(row), reason |-> row.reason,
     expires_at |-> row.expires_at, issued_by |-> row.issued_by,
     issued_at |-> row.issued_at]

\* C4: after migrate_punishments returns there is one audit entry and one
\* migrated punishment per legacy row, in order, with the fields of the row;
\* no row for an account that is no user is any user's active id, and a run
\* does not abort unless a live row of a user has an unknown type.
C4_AuditIsTotal ==
    /\ ReconReturned =>
        /\ Len(new_logs) = Len(LegacyPuns)
        /\ Len(new_puns) = Len(LegacyPuns)
        /\ \A i \in 1..Len(LegacyPuns) :
            /\ new_logs[i] = AuditOfRow(LegacyPuns[i])
            /\ new_puns[i] = PunishmentOfRow(LegacyPuns[i])
            /\ RowOrphaned(LegacyPuns[i]) =>
                \A u \in DOMAIN new_users : \A t \in {"mute", "ban", "roomban"} :
                    ActiveId(new_users[u], t) # LegacyPuns[i].punishment_id
    /\ ReconAborted =>
        \E i \in 1..Len(LegacyPuns) : ~RowOrphaned(LegacyPuns[i]) /\ ~RowExpired(LegacyPuns[i])

\* A returned run over an orphaned row of unknown type with no issuer and an
\* expired row: both have their audit entry.
C4_Witness ==
    /\ ReconReturned
    /\ Len(new_logs) = 2
    /\ \E i, j \in 1..2 :
        /\ RowOrphaned(LegacyPuns[i])
        /\ new_logs[i].type = "kick"
        /\ ~RowOrphaned(LegacyPuns[j])
        /\ RowExpired(LegacyPuns[j])
        /\ LegacyPuns[j].issued_by = None
        /\ new_logs[j].account_id = 0

---------------------------------------------------------------------------
(* Vocabulary of the later steps *)

FailedIn(step) == fatal # None /\ fatal[1].in = step

\* migrate_discord_links has returned.
Linked == pc \in {"push_new_users", "migrate_features", "push_features", "done"}
              \/ FailedIn("migrate_features")
\* push_new_users has committed.
UsersPushed == pc \in {"migrate_features", "push_features", "done"}
                   \/ FailedIn("migrate_features")
\* migrate_features has returned.
FeaturesFetched == pc \in {"push_features", "done"}
FeaturesPushed == pc = "done"

LegacyFeatures == old_db.featured_levels

---------------------------------------------------------------------------
(* C5 *)

\* C5: every migrated user has its row in the target user table, each column
\* equal to the field of the record, the name color included.
C5_UserRowsCarryEveryField ==
    UsersPushed =>
        \A u \in DOMAIN new_users : \E row \in new_db.user :
            /\ row.account_id = new_users[u].id
            /\ row.cube = new_users[u].cube
            /\ row.color1 = new_users[u].color1
            /\ row.color2 = new_users[u].color2
            /\ row.glow_color = new_users[u].glow_color
            /\ row.username = new_users[u].username
            /\ row.name_color = new_users[u].name_color
            /\ row.is_whitelisted = (IF new_users[u].whitelisted THEN 1 ELSE 0)
            /\ row.admin_password_hash = new_users[u].admin_password_hash
            /\ row.roles = Join(new_users[u].roles, ",")
            /\ row.active_mute = new_users[u].active_mute
            /\ row.active_ban = new_users[u].active_ban
            /\ row.active_room_ban = new_users[u].active_room_ban
            /\ row.discord_id = new_users[u].discord_id

---------------------------------------------------------------------------
(* C6 *)

\* C6: once push_new_users has committed, the user, punishment and audit-log
\* tables hold one row per record passed in and nothing else, whatever they
\* held before, and writing the same records again changes nothing; likewise
\* the featured-level table once push_features has committed.
C6_ReplaceIsIdempotent ==
    /\ UsersPushed =>
        /\ {row.account_id : row \in new_db.user} = DOMAIN new_users
        /\ Cardinality(new_db.user) = Cardinality(DOMAIN new_users)
        /\ Len(new_db.punishment) = Len(new_puns)
        /\ \A i \in 1..Len(new_puns) :
            /\ new_db.punishment[i].id = new_puns[i].id
            /\ new_db.punishment[i].account_id = new_puns[i].account_id
            /\ new_db.punishment[i].type = new_puns[i].type
        /\ Len(new_db.audit_log) = Len(new_logs)
        /\ \A i \in 1..Len(new_logs) : new_db.audit_log[i] = new_logs[i]
        /\ push_new_users(new_db, new_users, new_puns, new_logs) = new_db
    /\ FeaturesPushed =>
        /\ Len(feat_db) = Len(features)
        /\ \A i \in 1..Len(features) : feat_db[i] = features[i]
        /\ push_features(feat_db, features) = feat_db

\* A finished run over stale target stores that wrote users, punishments,
\* audit entries and featured levels.
C6_Witness ==
    /\ FeaturesPushed
    /\ new_db0 = StaleNewDb /\ feat_db0 = StaleFeatDb
    /\ new_db.user # {} /\ Len(new_db.punishment) > 1 /\ Len(new_db.audit_log) > 1
    /\ Len(feat_db) > 1

---------------------------------------------------------------------------
(* C7 *)

\* The users as migrate_punishments left them.
UsersBeforeLinks ==
    migrate_punishments(migrate_users(old_db.users), old_db.punishments, clock).users

LegacyLinks == IF roles_db = None THEN <<>> ELSE roles_db[1].linked_users

\* The discord id the links give account u: that of the last link to u.
LinkedDiscordId(u) ==
    LET c == {i \in 1..Len(LegacyLinks) : LegacyLinks[i].gd_id = u} IN
    IF c = {} THEN None ELSE Some(LegacyLinks[SetMax(c)].discord_id)

\* C7: after migrate_discord_links the users are those before it, each with
\* every field but discord_id unchanged; discord_id is that of the last link
\* to the account, unset if there is none (or no link source); each link to an
\* account outside the mapping gave a warning, and nothing else did.
C7_LinksTouchOnlyDiscordId ==
    /\ ~FailedIn("migrate_discord_links")
    /\ Linked =>
        /\ DOMAIN new_users = DOMAIN UsersBeforeLinks
        /\ \A u \in DOMAIN new_users :
            /\ [new_users[u] EXCEPT !.discord_id = None] = UsersBeforeLinks[u]
            /\ new_users[u].discord_id = LinkedDiscordId(u)
        /\ Len(link_warnings) =
               Cardinality({i \in 1..Len(LegacyLinks) :
                               LegacyLinks[i].gd_id \notin DOMAIN new_users})
        /\ \A i \in 1..Len(link_warnings) : link_warnings[i] \notin DOMAIN new_users

\* A link that set the discord id of a user with an active mute and roles, and
\* a link to an account that is no user.
C7_Witness ==
    /\ Linked
    /\ Len(link_warnings) = 1
    /\ \E u \in DOMAIN new_users :
        /\ new_users[u].discord_id # None
        /\ new_users[u].active_mute # 0
        /\ Len(new_users[u].roles) = 2

---------------------------------------------------------------------------
(* C8 *)

\* C8: with no token, migrate_features makes no request, does not fail, and
\* returns one record per legacy featured-level row, in order, with empty
\* name, author 0, empty author name, the row's level id, picked timestamp and
\* rate tier, and no feature duration.
C8_NoTokenDegrades ==
    token = "" =>
        /\ http_calls = 0
        /\ ~FailedIn("migrate_features")
        /\ FeaturesFetched =>
            /\ Len(features) = Len(LegacyFeatures)
            /\ \A i \in 1..Len(LegacyFeatures) :
                features[i] =
                    [level_id |-> LegacyFeatures[i].level_id,
                     name |-> <<>>, author |-> 0, author_name |-> <<>>,
                     featured_at |-> LegacyFeatures[i].picked_at,
                     rate_tier |-> LegacyFeatures[i].rate_tier,
                     feature_duration |-> None]

\* Two featured levels, one inactive, migrated with no token while the proxy
\* would have refused the request.
C8_Witness ==
    /\ token = ""
    /\ FeaturesFetched
    /\ Len(features) = 2
    /\ LegacyFeatures[1].is_active = 0 /\ LegacyFeatures[2].is_active = 1
    /\ ~gdproxy[1].ok

---------------------------------------------------------------------------
(* C9 *)

\* migrate_features has run: its fetches 1..Len(features) returned, and if it
\* failed, fetch Len(features) + 1 is the one that raised.
FetchRan == FeaturesFetched \/ FailedIn("migrate_features")
Attempted ==
    {i \in 1..Len(LegacyFeatures) : i <= Len(features) + 1}

OuterParts(text) == Split(text, "#")
DataTokens(text) == Split(OuterParts(text)[1], ":")
ExtraFields(text) == Split(OuterParts(text)[2], ":")

\* Both ids are there and are integers.
IdsReadable(text) ==
    /\ Len(OuterParts(text)) >= 2
    /\ HasKey(DataTokens(text), <<"6">>)
    /\ ParseInt(Lookup(DataTokens(text), <<"6">>)[1]) # None
    /\ ParseInt(ExtraFields(text)[1]) # None

IdsEqual(text) ==
    /\ IdsReadable(text)
    /\ ParseInt(ExtraFields(text)[1]) = ParseInt(Lookup(DataTokens(text), <<"6">>)[1])

\* The parts the result is made of are there.
ResultReadable(text) ==
    /\ Len(ExtraFields(text)) >= 3
    /\ HasKey(DataTokens(text), <<"2">>)
    /\ ParseInt(ExtraFields(text)[3]) # None

\* C9: for a successful response (token present), when the first field of the
\* second '#' part equals key "6" as an integer (and key "2" and an integer
\* third field are there) the fetch returns (value of key "2", third field as
\* integer, second field), whatever follows the second part or the third
\* field; when the ids differ or the second part has fewer than three fields
\* the fetch raises and returns nothing; the example body gives
\* ("MyLevel", 777, "someuser").
C9_ResponseDecoding ==
    FetchRan =>
        \A i \in Attempted : gdproxy[i].ok =>
            LET text == gdproxy[i].text IN
            /\ (IdsEqual(text) /\ ResultReadable(text)) =>
                /\ i <= Len(features)
                /\ features[i].name = Lookup(DataTokens(text), <<"2">>)[1]
                /\ Some(features[i].author) = ParseInt(ExtraFields(text)[3])
                /\ features[i].author_name = ExtraFields(text)[2]
            /\ (/\ Len(OuterParts(text)) >= 2
                /\ \/ Len(ExtraFields(text)) < 3
                   \/ IdsReadable(text) /\ ~IdsEqual(text)) =>
                /\ i = Len(features) + 1
                /\ FailedIn("migrate_features")
            /\ i <= Len(features) => (IdsEqual(text) /\ ResultReadable(text))
            /\ (\E t \in Trailers : text = ExampleBody \o t) =>
                /\ i <= Len(features)
                /\ features[i].name = MyLevel
                /\ features[i].author = 777
                /\ features[i].author_name = SomeUser

\* A decoded body whose ids are equal as integers but not as text (042 and
\* 42), with a third '#' part and a fourth field.
C9_Witness ==
    /\ FetchRan
    /\ \E i \in 1..Len(features) :
        LET text == gdproxy[i].text IN
        /\ Len(OuterParts(text)) > 2
        /\ Len(ExtraFields(text)) > 3
        /\ Lookup(DataTokens(text), <<"6">>)[1] # ExtraFields(text)[1]
        /\ features[i].name = MyLevel
        /\ features[i].author = 777
        /\ features[i].author_name = SomeUser

---------------------------------------------------------------------------
(* C10 *)

ReplacedNewDb == push_new_users(new_db0, new_users, new_puns, new_logs)
ReplacedFeatDb == push_features(feat_db0, features)

\* C10: each target store is always in its pre-run state or fully replaced;
\* when reconciliation aborts, no statement has been issued against either
\* store; when migrate_features fails, the user store is replaced and
\* committed and no statement has been issued against the feature store.
C10_AbortsLeaveStoresWhole ==
    /\ new_db = new_db0 \/ (UsersPushed /\ new_db = ReplacedNewDb)
    /\ feat_db = feat_db0 \/ (FeaturesPushed /\ feat_db = ReplacedFeatDb)
    /\ FailedIn("migrate_punishments") =>
        /\ new_stmts = 0 /\ feat_stmts = 0
        /\ new_db = new_db0 /\ feat_db = feat_db0
    /\ FailedIn("migrate_features") =>
        /\ new_stmts > 0 /\ new_db = ReplacedNewDb /\ StaleNewDb.user \cap new_db.user = {}
        /\ feat_stmts = 0 /\ feat_db = feat_db0

\* The second of two fetches failed with the users committed over a stale
\* store and the stale featured levels still in place.
C10_Witness ==
    /\ FailedIn("migrate_features")
    /\ Len(features) = 1
    /\ new_db0 = StaleNewDb /\ new_db # new_db0
    /\ feat_db = StaleFeatDb

====
